---- MODULE Spec2Model ----
(***************************************************************************)
(* The child bridge fork of homebridge (src/src/childBridgeFork.ts): the   *)
(* ChildBridgeFork controller, the IPC message dispatcher, the signal      *)
(* handler and the orphan (liveness) monitor, as one state machine.        *)
(*                                                                         *)
(* Every handler of the script runs to completion on node's single thread, *)
(* so each is one action; the async startBridge() is cut at its two await  *)
(* points into segments, each one action.  The collaborators that are not  *)
(* part of this file (BridgeService, PluginManager, HomebridgeAPI, the     *)
(* plugin's constructors) are represented by the calls made on them.       *)
(***************************************************************************)
EXTENDS Integers, Sequences, FiniteSets, TLC

VARIABLES
    booted,            \* the top level of the script has run (lines 169-223)
    connected,         \* process.connected
    rejectionsCrash,   \* node's unhandled-rejection mode: TRUE = the process dies
    exit,              \* [done, code, cause]: process.exit / death of the process
    sent,              \* envelopes process.send put on the channel, in order
    received,          \* tags of the envelopes the "message" handler has run for
    signals,           \* signal numbers the signal handler has run for
    ticks,             \* liveness intervals that found the parent connected
    shuttingDown,      \* let shuttingDown (line 194)
    exitTimers,        \* exit codes of the pending setTimeout callbacks (line 209)
    shutdownCalls,     \* calls of childPluginFork.shutdown()
    swallowed,         \* exceptions caught by the signal handler's try/catch
    loads,             \* calls of loadPlugin()
    loadsOk,           \* calls of loadPlugin() that reached their last line
    loadTrace,         \* the calls the latest loadPlugin() made, in order
    type,              \* this.type
    pluginConfig,      \* this.pluginConfig
    api,               \* this.api (0 = undefined, n = created by the n-th load)
    plugin,            \* this.plugin and what its constructors produce
    bridgeService,     \* this.bridgeService (0 = undefined, n = index in bridges)
    bridges,           \* every BridgeService constructed, with the calls made on it
    runs,              \* every startBridge() invocation: position and effects
    platformCtorLog,   \* arguments of each platform constructor invocation
    accessoryCtorLog   \* arguments of each accessory constructor invocation

vars == << booted, connected, rejectionsCrash, exit, sent, received, signals,
           ticks, shuttingDown, exitTimers, shutdownCalls, swallowed, loads,
           loadsOk, loadTrace, type, pluginConfig, api, plugin, bridgeService,
           bridges, runs, platformCtorLog, accessoryCtorLog >>

(***************************************************************************)
(* Bounds of the model.                                                    *)
(***************************************************************************)
MaxMsgs == 2       \* inbound envelopes delivered
MaxSignals == 2    \* termination signals delivered
MaxTicks == 1      \* liveness ticks that find the parent connected
MaxShutdownCalls == 2   \* calls of shutdown(), when it is called directly

(***************************************************************************)
(* Program constants.                                                      *)
(***************************************************************************)
SIGINT == 2
SIGTERM == 15
SignalExitBase == 128
OrphanExitCode == 1
UncaughtExitCode == 1

SignalNums == {SIGINT, SIGTERM}

(***************************************************************************)
(* Envelopes.                                                              *)
(***************************************************************************)
NoData == [type |-> "undefined", hasName |-> FALSE, variant |-> "none",
           services |-> "none", path |-> "none", options |-> "none",
           bridgeKey |-> FALSE]

\* ChildProcessLoadEventData: what loadPlugin and startBridge read of it.
\*   type      PluginType
\*   hasName   pluginConfig.name is a non-empty string
\*   variant   what the platform constructor builds (dynamic/static/independent)
\*   services  whether createHAPAccessory yields an accessory or undefined
\*   path      whether pluginPath resolves and the plugin initializes
\*   options   bridgeOptions: none of the four set, or all of them
\*   bridgeKey pluginConfig carries the reserved _bridge key
PlatformDescriptors ==
    { [type |-> "PLATFORM", hasName |-> TRUE, variant |-> v, services |-> "none",
       path |-> "ok", options |-> "none", bridgeKey |-> TRUE] :
         v \in {"dynamic", "static", "independent"} }
    \cup { [type |-> "PLATFORM", hasName |-> FALSE, variant |-> "dynamic",
            services |-> "none", path |-> "ok", options |-> "all",
            bridgeKey |-> TRUE] }

AccessoryDescriptors ==
    { [type |-> "ACCESSORY", hasName |-> TRUE, variant |-> "none", services |-> s,
       path |-> "ok", options |-> "none", bridgeKey |-> TRUE] :
         s \in {"some", "empty"} }
    \cup { [type |-> "ACCESSORY", hasName |-> FALSE, variant |-> "none",
            services |-> "some", path |-> "ok", options |-> "all",
            bridgeKey |-> FALSE] }

BrokenDescriptors ==
    { [type |-> "PLATFORM", hasName |-> TRUE, variant |-> "dynamic",
       services |-> "none", path |-> p, options |-> "all", bridgeKey |-> TRUE] :
         p \in {"unresolvable", "initThrows"} }

Descriptors == PlatformDescriptors \cup AccessoryDescriptors \cup BrokenDescriptors

\* An inbound value: shape is what typeof sees ("null" is typeof "object"),
\* id is "" when the envelope has no (or a falsy) id.
LoadMessages == { [shape |-> "object", id |-> "LOAD", data |-> d] : d \in Descriptors }

OtherMessages ==
    { [shape |-> "object", id |-> k, data |-> NoData] :
        k \in {"START", "READY", "LOADED", ""} }
    \cup { [shape |-> s, id |-> "", data |-> NoData] : s \in {"string", "null"} }

Inbound == LoadMessages \cup OtherMessages

\* What the handler does with m: the history keeps only this.
Tag(m) ==
    IF m.shape = "null" THEN "null"
    ELSE IF m.shape = "object" /\ m.id \in {"LOAD", "START"} THEN m.id
    ELSE "ignored"

(***************************************************************************)
(* Process exit.                                                           *)
(***************************************************************************)
Running == [done |-> FALSE, code |-> 0, cause |-> "none"]

Exited(code, cause) == [done |-> TRUE, code |-> code, cause |-> cause]

Alive == booted /\ ~exit.done

(***************************************************************************)
(* sendMessage (lines 47-54).  process.send is defined: the script is run  *)
(* as a fork (line 2), and node leaves it defined when the channel closes. *)
(* data is undefined at both call sites.                                   *)
(***************************************************************************)
ProcessSendDefined == TRUE

\* A bug: the envelope carries a payload.
EnvelopeWithPayload(kind) == [id |-> kind, data |-> "payload"]

Envelope(kind) == [id |-> kind, data |-> "undefined"]

\* Line 48 tests process.send, not process.connected.  On a closed channel
\* process.send puts nothing on the channel and node raises
\* ERR_IPC_CHANNEL_CLOSED as an "error" event of process, which has no
\* listener here.
SendMessage(out, kind) ==
    IF ProcessSendDefined /\ connected THEN Append(out, Envelope(kind)) ELSE out

SendRaises == ProcessSendDefined /\ ~connected

Count(seq, kind) == Cardinality({ i \in 1..Len(seq) : seq[i].id = kind })

(***************************************************************************)
(* Init: the process has been forked, the script has not run yet.          *)
(***************************************************************************)
Init ==
    /\ booted = FALSE
    /\ connected = TRUE
    /\ rejectionsCrash \in BOOLEAN
    /\ exit = Running
    /\ sent = << >>
    /\ received = << >>
    /\ signals = << >>
    /\ ticks = 0
    /\ shuttingDown = FALSE
    /\ exitTimers = << >>
    /\ shutdownCalls = 0
    /\ swallowed = 0
    /\ loads = 0
    /\ loadsOk = 0
    /\ loadTrace = << >>
    /\ type = "undefined"
    /\ pluginConfig = [defined |-> FALSE, hasName |-> FALSE, from |-> 0,
                       bridgeKey |-> FALSE]
    /\ api = 0
    /\ plugin = [id |-> 0, variant |-> "none", services |-> "none",
                 initializes |-> TRUE]
    /\ bridgeService = 0
    /\ bridges = << >>
    /\ runs = << >>
    /\ platformCtorLog = << >>
    /\ accessoryCtorLog = << >>

\* new ChildBridgeFork() (line 169, constructor lines 42-45), then the
\* registration of the handlers and of the interval (lines 174-223).
Boot ==
    /\ ~booted
    /\ booted' = TRUE
    /\ sent' = SendMessage(sent, "READY")
    /\ UNCHANGED << connected, rejectionsCrash, exit, received, signals, ticks,
                    shuttingDown, exitTimers, shutdownCalls, swallowed, loads,
                    loadsOk, loadTrace, type, pluginConfig, api, plugin, bridgeService,
                    bridges, runs, platformCtorLog, accessoryCtorLog >>

(***************************************************************************)
(* loadPlugin (lines 56-101).  An exception leaves the "message" handler   *)
(* uncaught and the process dies with node's uncaught-exception code.      *)
(***************************************************************************)
PathResolves(d) == d.path # "unresolvable"

InitHookReturns(d) == d.path # "initThrows"

\* A bug: a failed load is not noticed.
LoadAlwaysSucceeds(d) == TRUE

LoadSucceeds(d) == PathResolves(d) /\ InitHookReturns(d)

\* Line 66: delete this.pluginConfig._bridge
StripBridgeKey(cfg) == [cfg EXCEPT !.bridgeKey = FALSE]

\* Lines 69-83: each option is applied only when it is set.
OptionSteps(d) ==
    IF d.options = "all"
    THEN << "setTimestampEnabled", "setDebugEnabled", "forceColor", "setStoragePath" >>
    ELSE << >>

\* Lines 93-100: the calls stop at the one that throws.
PluginSteps(d) ==
    IF ~PathResolves(d) THEN << "loadPlugin" >>
    ELSE IF ~InitHookReturns(d) THEN << "loadPlugin", "pluginLoad", "initializePlugin" >>
    ELSE << "loadPlugin", "pluginLoad", "initializePlugin", "setTitle", "sendLoaded" >>

\* A bug: the adapter is constructed before the options are applied.
LoadStepsAdapterFirst(d) ==
    << "setFields", "deleteBridgeKey" >>
    \o << "newHomebridgeAPI", "newPluginManager" >>
    \o OptionSteps(d) \o << "setCustomStoragePath" >> \o PluginSteps(d)

\* Lines 58-100 in program order.
LoadSteps(d) ==
    << "setFields", "deleteBridgeKey" >>
    \o OptionSteps(d) \o << "setCustomStoragePath" >>
    \o << "newHomebridgeAPI", "newPluginManager" >> \o PluginSteps(d)

LoadPlugin(d) ==
    /\ loads' = loads + 1
    /\ loadTrace' = LoadSteps(d)
    \* lines 58-66
    /\ type' = d.type
    /\ pluginConfig' = StripBridgeKey([defined |-> TRUE, hasName |-> d.hasName,
                                       from |-> loads + 1, bridgeKey |-> d.bridgeKey])
    \* lines 89-90: this.api and this.pluginManager are created together
    /\ api' = loads + 1
    \* line 93 assigns this.plugin when the path resolves
    /\ plugin' = IF PathResolves(d)
                 THEN [id |-> loads + 1, variant |-> d.variant, services |-> d.services,
                       initializes |-> InitHookReturns(d)]
                 ELSE plugin
    \* lines 94-95 throw when the initialization hook throws; line 100
    /\ IF LoadSucceeds(d)
       THEN /\ sent' = SendMessage(sent, "LOADED")
            /\ loadsOk' = loadsOk + 1
            /\ exit' = IF SendRaises
                       THEN Exited(UncaughtExitCode, "channelClosed")
                       ELSE exit
       ELSE /\ sent' = sent
            /\ loadsOk' = loadsOk
            /\ exit' = Exited(UncaughtExitCode, "uncaughtException")
    /\ UNCHANGED << bridgeService, bridges, runs, platformCtorLog, accessoryCtorLog >>

(***************************************************************************)
(* startBridge (lines 103-159), cut at its await points (113, 125).        *)
(***************************************************************************)
NewBridge == [cacheLoads |-> 0, staticLoads |-> 0, added |-> 0, restored |-> 0,
              published |-> 0, teardowns |-> 0]

NewRun == [pc |-> "awaitCache", branch |-> "pending", made |-> 0, target |-> 0,
           ctor |-> 0, added |-> 0, restored |-> FALSE, published |-> FALSE,
           finished |-> FALSE, steps |-> << >>]

\* A bug: the platform branch is never taken.
IsPlatformNever(t) == FALSE

IsPlatform(t) == t = "PLATFORM"

IsAccessory(t) == t = "ACCESSORY"

\* A bug: the name check is dropped.
MissingNameUnchecked(cfg) == FALSE

MissingName(cfg) == ~cfg.hasName

\* A rejected startBridge() promise has no handler (line 185).
AfterRejection(r) ==
    IF r.pc = "rejected" /\ rejectionsCrash
    THEN Exited(UncaughtExitCode, "unhandledRejection")
    ELSE exit

\* Lines 104-113 in program order.
StartSteps == << "newBridgeService", "loadCachedPlatformAccessoriesFromDisk" >>

\* Lines 104-113.  With no load before it the BridgeService constructor is
\* handed undefined arguments and may throw (ctorThrows).
StartBridge(ctorThrows) ==
    /\ IF api = 0 /\ ctorThrows
       THEN /\ runs' = Append(runs, [NewRun EXCEPT !.pc = "rejected", !.branch = "none",
                                                   !.steps = << "newBridgeService" >>])
            /\ UNCHANGED << bridgeService, bridges >>
       ELSE /\ bridges' = Append(bridges, [NewBridge EXCEPT !.cacheLoads = 1])
            /\ bridgeService' = Len(bridges) + 1
            /\ runs' = Append(runs, [NewRun EXCEPT !.made = Len(bridges) + 1,
                                                   !.steps = StartSteps])
    /\ exit' = AfterRejection(runs'[Len(runs')])
    /\ UNCHANGED << sent, loads, loadsOk, loadTrace, type, pluginConfig, api, plugin,
                    platformCtorLog, accessoryCtorLog >>

\* Lines 154-158 on the bridge service that this.bridgeService names now.
Published(brs) ==
    [brs EXCEPT ![bridgeService].restored = @ + 1,
                ![bridgeService].published = @ + 1]

\* Lines 155-158 in program order; signalFinished throws on an undefined api.
FinishSteps ==
    << "restoreCachedPlatformAccessories", "publishBridge" >>
    \o (IF api # 0 THEN << "signalFinished" >> ELSE << >>)

Completed(r) ==
    [r EXCEPT !.restored = TRUE, !.published = TRUE, !.finished = (api # 0),
              !.pc = IF api # 0 THEN "done" ELSE "rejected",
              !.steps = @ \o FinishSteps]

\* Lines 116-129 in program order.
PlatformSteps ==
    << "platformConstructor" >>
    \o (IF plugin.variant = "dynamic" THEN << "assignDynamicPlatform" >>
        ELSE IF plugin.variant = "static" THEN << "loadPlatformAccessories" >>
        ELSE << >>)

\* Lines 140-151 in program order; n accessories come out of createHAPAccessory.
AccessorySteps(n) ==
    << "accessoryConstructor", "createHAPAccessory" >>
    \o (IF n = 1 THEN << "addBridgedAccessory" >> ELSE << >>)

LoggerPrefix == IF pluginConfig.hasName THEN "name" ELSE "pluginIdentifier"

CtorArgs == [logger |-> LoggerPrefix, config |-> pluginConfig.from, api |-> api]

\* Lines 115-158: the continuation after the cache has been read.
AfterCache(i) ==
    LET r == runs[i] IN
    IF IsPlatform(type)
    THEN /\ platformCtorLog' = Append(platformCtorLog, CtorArgs)
         /\ accessoryCtorLog' = accessoryCtorLog
         /\ IF plugin.variant = "static"
            THEN /\ bridges' = [bridges EXCEPT ![bridgeService].staticLoads = @ + 1]
                 /\ runs' = [runs EXCEPT ![i] =
                        [r EXCEPT !.pc = "awaitStatic", !.branch = "platform",
                                  !.target = bridgeService, !.ctor = 1,
                                  !.steps = @ \o PlatformSteps]]
            ELSE /\ bridges' = Published(bridges)
                 /\ runs' = [runs EXCEPT ![i] =
                        Completed([r EXCEPT !.branch = "platform", !.ctor = 1,
                                            !.steps = @ \o PlatformSteps])]
    ELSE IF IsAccessory(type)
    THEN IF MissingName(pluginConfig)
         THEN \* lines 135-138
              /\ runs' = [runs EXCEPT ![i] =
                     [r EXCEPT !.pc = "returned", !.branch = "accessoryNoName"]]
              /\ UNCHANGED << bridges, platformCtorLog, accessoryCtorLog >>
         ELSE \* lines 140-151
              LET n == IF plugin.services = "some" THEN 1 ELSE 0 IN
              /\ accessoryCtorLog' = Append(accessoryCtorLog, CtorArgs)
              /\ platformCtorLog' = platformCtorLog
              /\ bridges' = Published([bridges EXCEPT ![bridgeService].added = @ + n])
              /\ runs' = [runs EXCEPT ![i] =
                     Completed([r EXCEPT !.branch = "accessory", !.ctor = 1,
                                         !.added = n,
                                         !.steps = @ \o AccessorySteps(n)])]
    ELSE /\ bridges' = Published(bridges)
         /\ runs' = [runs EXCEPT ![i] = Completed([r EXCEPT !.branch = "none"])]
         /\ UNCHANGED << platformCtorLog, accessoryCtorLog >>

\* Lines 125-158: the continuation after loadPlatformAccessories, which
\* bridged n accessories on the bridge service it was called on.
AfterStatic(i, n) ==
    LET r == runs[i] IN
    /\ bridges' = Published([bridges EXCEPT ![r.target].added = @ + n])
    /\ runs' = [runs EXCEPT ![i] = Completed([r EXCEPT !.added = n])]
    /\ UNCHANGED << platformCtorLog, accessoryCtorLog >>

ResumeStart(i, n) ==
    /\ Alive
    /\ i \in 1..Len(runs)
    /\ IF runs[i].pc = "awaitCache"
       THEN n = 0 /\ AfterCache(i)
       ELSE runs[i].pc = "awaitStatic" /\ AfterStatic(i, n)
    /\ exit' = AfterRejection(runs'[i])
    /\ UNCHANGED << booted, connected, rejectionsCrash, sent, received, signals,
                    ticks, shuttingDown, exitTimers, shutdownCalls, swallowed,
                    loads, loadsOk, loadTrace, type, pluginConfig, api, plugin, bridgeService >>

(***************************************************************************)
(* The "message" handler (lines 174-189).                                  *)
(***************************************************************************)
\* typeof null is "object", and reading .id of null throws.
Unreadable(m) == m.shape = "null"

Ignored(m) == m.shape # "object" \/ m.id = ""

OnMessage(m, ctorThrows) ==
    /\ Alive
    /\ connected
    /\ Len(received) < MaxMsgs
    /\ received' = Append(received, Tag(m))
    /\ IF Unreadable(m)
       THEN /\ exit' = Exited(UncaughtExitCode, "uncaughtException")
            /\ UNCHANGED << sent, loads, loadsOk, loadTrace, type, pluginConfig, api, plugin,
                            bridgeService, bridges, runs, platformCtorLog,
                            accessoryCtorLog >>
       ELSE IF Ignored(m)
       THEN UNCHANGED << exit, sent, loads, loadsOk, loadTrace, type, pluginConfig, api, plugin,
                         bridgeService, bridges, runs, platformCtorLog,
                         accessoryCtorLog >>
       ELSE IF m.id = "LOAD"
       THEN LoadPlugin(m.data)
       ELSE IF m.id = "START"
       THEN StartBridge(ctorThrows)
       ELSE UNCHANGED << exit, sent, loads, loadsOk, loadTrace, type, pluginConfig, api, plugin,
                         bridgeService, bridges, runs, platformCtorLog,
                         accessoryCtorLog >>
    /\ UNCHANGED << booted, connected, rejectionsCrash, signals, ticks, shuttingDown,
                    exitTimers, shutdownCalls, swallowed >>

(***************************************************************************)
(* shutdown (lines 161-163) and the signal handler (lines 194-213).        *)
(***************************************************************************)
\* A bug: shutdown() does not reach teardown().
TeardownSkipped(brs) == brs

\* this.bridgeService.teardown(): a TypeError when there is no bridge service.
Teardown(brs) ==
    IF bridgeService = 0 THEN brs
    ELSE [brs EXCEPT ![bridgeService].teardowns = @ + 1]

ShutdownThrows(teardownThrows) == bridgeService = 0 \/ teardownThrows

\* A bug: no try/catch around shutdown().
ShutdownErrorUncaught(threw) == threw

\* Lines 203-207: the catch block discards whatever shutdown() threw, so
\* nothing escapes the handler.
ShutdownErrorEscapes(threw) == FALSE

\* A bug: the re-entrancy guard is dropped.
NeverShuttingDown == FALSE

AlreadyShuttingDown == shuttingDown

\* A bug: the exit code is the bare signal number.
BareSignalCode(signalNum) == signalNum

ForcedExitCode(signalNum) == SignalExitBase + signalNum

SignalHandler(signalNum, teardownThrows) ==
    /\ Alive
    /\ Len(signals) < MaxSignals
    /\ signals' = Append(signals, signalNum)
    /\ IF AlreadyShuttingDown
       THEN UNCHANGED << shuttingDown, shutdownCalls, bridges, swallowed, exitTimers,
                         exit >>
       ELSE LET threw == ShutdownThrows(teardownThrows) IN
            /\ shuttingDown' = TRUE
            /\ shutdownCalls' = shutdownCalls + 1
            /\ bridges' = Teardown(bridges)
            /\ IF ShutdownErrorEscapes(threw)
               THEN /\ exit' = Exited(UncaughtExitCode, "uncaughtException")
                    /\ UNCHANGED << swallowed, exitTimers >>
               ELSE /\ swallowed' = IF threw THEN swallowed + 1 ELSE swallowed
                    /\ exitTimers' = Append(exitTimers, ForcedExitCode(signalNum))
                    /\ exit' = exit
    /\ UNCHANGED << booted, connected, rejectionsCrash, sent, received, ticks,
                    loads, loadsOk, loadTrace, type, pluginConfig, api, plugin, bridgeService,
                    runs, platformCtorLog, accessoryCtorLog >>

\* The setTimeout callback of line 209.
ForcedExit ==
    /\ Alive
    /\ exitTimers # << >>
    /\ exit' = Exited(Head(exitTimers), "forcedExit")
    /\ exitTimers' = Tail(exitTimers)
    /\ UNCHANGED << booted, connected, rejectionsCrash, sent, received, signals,
                    ticks, shuttingDown, shutdownCalls, swallowed, loads, loadsOk, loadTrace,
                    type, pluginConfig, api, plugin, bridgeService, bridges, runs,
                    platformCtorLog, accessoryCtorLog >>

(***************************************************************************)
(* The orphan monitor (lines 218-223).                                     *)
(***************************************************************************)
\* A bug: the monitor never sees the parent gone.
ParentNeverGone == FALSE

\* A bug: the monitor exits whatever the channel says.
ParentAlwaysGone == TRUE

ParentGone == ~connected

LivenessTick ==
    /\ Alive
    /\ IF ParentGone
       THEN /\ exit' = Exited(OrphanExitCode, "orphan")
            /\ ticks' = ticks
       ELSE /\ ticks < MaxTicks
            /\ ticks' = ticks + 1
            /\ exit' = exit
    /\ UNCHANGED << booted, connected, rejectionsCrash, sent, received, signals,
                    shuttingDown, exitTimers, shutdownCalls, swallowed, loads,
                    loadsOk, loadTrace, type, pluginConfig, api, plugin, bridgeService,
                    bridges, runs, platformCtorLog, accessoryCtorLog >>

\* The parent goes away or closes the channel.
Disconnect ==
    /\ Alive
    /\ connected
    /\ connected' = FALSE
    /\ UNCHANGED << booted, rejectionsCrash, exit, sent, received, signals, ticks,
                    shuttingDown, exitTimers, shutdownCalls, swallowed, loads,
                    loadsOk, loadTrace, type, pluginConfig, api, plugin, bridgeService,
                    bridges, runs, platformCtorLog, accessoryCtorLog >>

Next ==
    \/ Boot
    \/ \E m \in Inbound, ctorThrows \in BOOLEAN : OnMessage(m, ctorThrows)
    \/ \E i \in 1..MaxMsgs, n \in 0..1 : ResumeStart(i, n)
    \/ \E signalNum \in SignalNums, teardownThrows \in BOOLEAN :
           SignalHandler(signalNum, teardownThrows)
    \/ ForcedExit
    \/ LivenessTick
    \/ Disconnect

Spec == Init /\ [][Next]_vars

\* node's event loop runs a timer callback that is due: the forced-exit
\* timeout (line 209) and the liveness interval (line 218) both fire.
SpecLive == Spec /\ WF_vars(ForcedExit) /\ WF_vars(LivenessTick)

(***************************************************************************)
(* The exported class on its own: load and start reach it as envelopes,    *)
(* shutdown() is called directly by the code that holds the controller.    *)
(***************************************************************************)
CallShutdown ==
    /\ Alive
    /\ bridgeService # 0
    /\ shutdownCalls < MaxShutdownCalls
    /\ shutdownCalls' = shutdownCalls + 1
    /\ bridges' = Teardown(bridges)
    /\ UNCHANGED << booted, connected, rejectionsCrash, exit, sent, received, signals,
                    ticks, shuttingDown, exitTimers, swallowed, loads, loadsOk, loadTrace, type,
                    pluginConfig, api, plugin, bridgeService, runs, platformCtorLog,
                    accessoryCtorLog >>

\* loadPlugin() called directly with a descriptor that loads.
CallLoadPlugin(d) ==
    /\ Alive
    /\ loads < MaxMsgs
    /\ LoadSucceeds(d)
    /\ LoadPlugin(d)
    /\ UNCHANGED << booted, connected, rejectionsCrash, received, signals, ticks,
                    shuttingDown, exitTimers, shutdownCalls, swallowed >>

NextAPI ==
    \/ Boot
    \/ \E m \in Inbound, ctorThrows \in BOOLEAN : OnMessage(m, ctorThrows)
    \/ \E i \in 1..MaxMsgs, n \in 0..1 : ResumeStart(i, n)
    \/ CallShutdown
    \/ \E d \in Descriptors : CallLoadPlugin(d)
    \/ Disconnect

SpecAPI == Init /\ [][NextAPI]_vars

(***************************************************************************)
(* Properties.                                                             *)
(***************************************************************************)
RunIds == 1..Len(runs)

BridgeIds == 1..Len(bridges)

SignalStep == Len(signals') > Len(signals)

\* C1: only the first termination signal received invokes shutdown() and
\* schedules a forced-exit timer; a later signal changes nothing: no further
\* shutdown() call, no teardown, no further timer.
C1_OnlyFirstSignalShutsDown ==
    /\ [](shutdownCalls <= 1 /\ Len(exitTimers) <= 1)
    /\ [][SignalStep =>
            IF signals = << >>
            THEN /\ shuttingDown'
                 /\ shutdownCalls' = shutdownCalls + 1
                 /\ Len(exitTimers') = Len(exitTimers) + 1
            ELSE UNCHANGED << shuttingDown, shutdownCalls, exitTimers, swallowed,
                              bridges, bridgeService, exit, sent, runs >>]_vars

C1_Witness ==
    /\ Len(signals) = 2
    /\ shutdownCalls = 1
    /\ Len(exitTimers) = 1

\* C2: calling shutdown() twice never invokes the teardown of a runtime
\* handle twice.
C2_TeardownAtMostOnce ==
    \A b \in BridgeIds : bridges[b].teardowns <= 1

OrphanStep == ~exit.done /\ exit'.cause = "orphan"

\* C3: a liveness tick that finds the channel disconnected exits the process
\* at that tick with the orphan code 1, without calling shutdown() or
\* teardown, without setting shuttingDown and without scheduling a timer; a
\* tick that finds the channel connected changes nothing.
C3_OrphanExitBypassesShutdown ==
    /\ [][OrphanStep =>
            /\ ~connected
            /\ exit'.done /\ exit'.code = 1
            /\ UNCHANGED << shuttingDown, shutdownCalls, swallowed, bridges,
                            exitTimers, sent, runs >>]_vars
    /\ [][ticks' # ticks =>
            /\ connected
            /\ UNCHANGED << exit, shuttingDown, shutdownCalls, swallowed, bridges,
                            exitTimers, sent, runs, bridgeService, api, connected >>]_vars

C3_Witness ==
    /\ exit.cause = "orphan"
    /\ ~shuttingDown
    /\ bridgeService # 0
    /\ ticks > 0

\* C4: once a termination signal has been handled, exactly one forced-exit
\* timer is pending for as long as the process lives, and when it fires the
\* process exits with 128 + the number of the first signal received (130 for
\* SIGINT, 143 for SIGTERM), whether teardown ran, threw or could not run,
\* and whatever signals came later.
C4_ForcedExitCodeOfFirstSignal ==
    /\ []((signals # << >> /\ ~exit.done) =>
            exitTimers = << 128 + signals[1] >>)
    /\ [](exit.cause = "forcedExit" =>
            /\ exit.code = 128 + signals[1]
            /\ exit.code = IF signals[1] = SIGTERM THEN 143 ELSE 130)
    /\ [][(~exit.done /\ exitTimers # << >> /\ exitTimers' = << >>) =>
            exit'.cause = "forcedExit"]_vars

C4_Witness ==
    /\ exit.cause = "forcedExit"
    /\ exit.code = 143
    /\ signals = << SIGTERM, SIGINT >>
    /\ swallowed = 1

\* C5: when the only envelopes received are LOAD with a well-formed PLATFORM
\* descriptor and then START, exactly one LOADED has been sent once the LOAD
\* is processed (before START is), and when start() has completed the platform
\* constructor has been invoked exactly once, with (logger, config, api) of
\* that load, and the one bridge has been published exactly once.
C5_LoadThenStartPlatform ==
    (loadsOk = 1 /\ type = "PLATFORM"
        /\ received \in { << "LOAD" >>, << "LOAD", "START" >> }) =>
      /\ Count(sent, "LOADED") = 1
      /\ Len(runs) = Len(received) - 1
      /\ Len(bridges) = Len(runs)
      /\ Len(platformCtorLog) <= 1
      /\ accessoryCtorLog = << >>
      /\ \A i \in RunIds :
            /\ runs[i].pc \in {"awaitCache", "awaitStatic", "done"}
            /\ bridges[i].published = (IF runs[i].pc = "done" THEN 1 ELSE 0)
            /\ runs[i].pc # "awaitCache" =>
                  platformCtorLog =
                      << [logger |-> IF pluginConfig.hasName
                                     THEN "name" ELSE "pluginIdentifier",
                          config |-> 1, api |-> 1] >>

C5_Witness ==
    /\ received = << "LOAD", "START" >>
    /\ type = "PLATFORM"
    /\ Len(runs) = 1
    /\ runs[1].pc = "done"
    /\ bridges[1].published = 1

NotUninitialized == loads >= 1 \/ Len(runs) >= 1

\* C6: a LOAD received when the controller is not Uninitialized (a second
\* LOAD, or a LOAD after START) is ignored: the loaded adapter and extension
\* are not replaced, the process lives on and no further LOADED is sent.
C6_LateLoadIgnored ==
    [][(NotUninitialized /\ received' = Append(received, "LOAD")) =>
          UNCHANGED << type, pluginConfig, api, plugin, sent, exit >>]_vars

NotLoaded == loads = 0 \/ Len(runs) >= 1

\* C7: a START received when the controller is not Loaded (before any LOAD,
\* while a start is in flight, or after start completed) is ignored: it
\* creates no runtime handle, constructs no extension, publishes nothing and
\* raises no error.
C7_LateStartIgnored ==
    /\ [][(NotLoaded /\ received' = Append(received, "START")) =>
            UNCHANGED << bridgeService, bridges, runs, exit >>]_vars
    /\ [](\A i \in RunIds : i >= 2 =>
            /\ runs[i].made = 0 /\ runs[i].ctor = 0
            /\ ~runs[i].published /\ runs[i].pc # "rejected")

\* C8: when start() runs for an ACCESSORY whose configuration lacks a name,
\* the rest of start() still proceeds: the cached accessories are restored,
\* the bridge is published and the finished signal is raised.
C8_NamelessAccessoryStillPublishes ==
    \A i \in RunIds : runs[i].branch = "accessoryNoName" =>
        runs[i].restored /\ runs[i].published /\ runs[i].finished

\* C9: a start() that finds an ACCESSORY configuration without a name
\* completes without throwing, never invokes the accessory constructor (no
\* constructor invocation ever sees a nameless accessory configuration) and
\* adds no accessory to the bridge.
C9_NamelessAccessoryNotConstructed ==
    /\ \A i \in RunIds : runs[i].branch = "accessoryNoName" =>
          /\ runs[i].pc = "returned"
          /\ runs[i].ctor = 0
          /\ runs[i].added = 0
    /\ \A k \in 1..Len(accessoryCtorLog) : accessoryCtorLog[k].logger = "name"
    /\ (type = "ACCESSORY" /\ ~pluginConfig.hasName /\ loads = 1) =>
          /\ accessoryCtorLog = << >>
          /\ \A b \in BridgeIds : bridges[b].added = 0

C9_Witness ==
    \E i \in RunIds :
        /\ runs[i].branch = "accessoryNoName"
        /\ runs[i].pc = "returned"
        /\ received = << "LOAD", "START" >>

\* C10: every envelope the child sends is READY or LOADED and carries no
\* payload; READY is sent exactly once, first, by the start of the script
\* before any inbound envelope is processed, and changes nothing of the
\* controller; LOADED is sent only as the last step of a load that succeeds.
C10_OutboundEnvelopes ==
    /\ [](/\ \A i \in 1..Len(sent) :
                /\ sent[i].data = "undefined"
                /\ sent[i].id = (IF i = 1 THEN "READY" ELSE "LOADED")
          /\ Len(sent) = (IF booted THEN 1 ELSE 0) + loadsOk
          /\ ~booted => received = << >>)
    /\ [][sent' # sent =>
            \/ /\ ~booted /\ booted'
               /\ sent' = Append(sent, [id |-> "READY", data |-> "undefined"])
               /\ UNCHANGED << type, pluginConfig, api, plugin, bridgeService,
                               bridges, runs, shuttingDown, exit, received >>
            \/ /\ received' = Append(received, "LOAD")
               /\ loadsOk' = loadsOk + 1
               /\ ~exit'.done
               /\ sent' = Append(sent, [id |-> "LOADED", data |-> "undefined"])]_vars

C10_Witness ==
    /\ Len(sent) = 3
    /\ signals # << >>
    /\ ticks > 0

\* C11: once a termination signal has been handled, or once the channel to
\* the parent is disconnected, the process eventually terminates, in every
\* controller state, also while start() is suspended and when teardown threw.
C11_SignalledOrOrphanedTerminates ==
    /\ (signals # << >>) ~> exit.done
    /\ (booted /\ ~connected) ~> exit.done

C11_Witness ==
    /\ exit.done
    /\ exit.cause = "forcedExit"
    /\ swallowed = 1
    /\ \E i \in RunIds : runs[i].pc = "awaitCache"

LoadFailed == api # plugin.id \/ ~plugin.initializes

\* C12: when the extension path does not resolve or the initialization hook
\* throws, the process is dead with a non-zero code, no LOADED was sent for
\* that load, and no load was attempted after it.
C12_FailedLoadIsFatal ==
    /\ loads - loadsOk \in {0, 1}
    /\ LoadFailed <=> loadsOk < loads
    /\ LoadFailed =>
          /\ exit.done
          /\ exit.code # 0
          /\ exit.cause = "uncaughtException"
          /\ Count(sent, "LOADED") = loads - 1
          /\ received[Len(received)] = "LOAD"

C12_Witness ==
    /\ LoadFailed
    /\ ~plugin.initializes
    /\ loads = 2
    /\ exit.done

\* C13: the first termination signal, handled in any controller state, also
\* with no bridge service yet and when teardown throws, never kills the
\* process nor lets an exception out of the handler: the error is discarded
\* and the forced-exit timer is scheduled all the same.
C13_SignalHandlerNeverThrows ==
    /\ [][(SignalStep /\ signals = << >>) =>
            /\ exit' = exit
            /\ Len(exitTimers') = Len(exitTimers) + 1
            /\ swallowed' \in {swallowed, swallowed + 1}
            /\ bridgeService = 0 => swallowed' = swallowed + 1]_vars
    /\ [](exit.cause = "uncaughtException" => received # << >>)

C13_Witness ==
    /\ signals # << >>
    /\ bridgeService = 0
    /\ loads = 0
    /\ swallowed = 1
    /\ Len(exitTimers) = 1
    /\ ~exit.done

Last(seq) == seq[Len(seq)]

MessageStep == Len(received') > Len(received)

\* C14: an inbound value that is not an object, or an envelope with no id or
\* with an id other than LOAD and START, is ignored: the controller, the
\* bridges and the envelopes sent are unchanged and the process lives on.
C14_MalformedEnvelopeIgnored ==
    [][(MessageStep /\ Last(received') \in {"ignored", "null"}) =>
          UNCHANGED << exit, sent, loads, loadsOk, type, pluginConfig, api, plugin,
                       bridgeService, bridges, runs, shuttingDown, exitTimers >>]_vars

\* C15: a send made while the channel to the parent is not connected is
\* dropped silently: nothing goes out, no error is raised, and the load that
\* made it ends as if the send had succeeded.
C15_SendOnClosedChannelDropped ==
    [][(~connected /\ loadsOk' = loadsOk + 1) =>
          /\ sent' = sent
          /\ exit' = exit]_vars

\* C16: when the process exits through the forced-exit timer of the signal
\* path, every bridge service that was created has been torn down exactly
\* once.
C16_EveryHandleTornDownOnce ==
    exit.cause = "forcedExit" =>
        \A b \in BridgeIds : bridges[b].teardowns = 1

Suspended(r) == r.pc \in {"awaitCache", "awaitStatic"}

TornDown(r) == r.made # 0 /\ bridges[r.made].teardowns >= 1

\* C17 as claimed: once the teardown of its bridge service has been invoked,
\* a suspended start() that resumes adds no accessory, publishes nothing and
\* does not signal that setup has finished.
C17_NoPublishAfterTeardown ==
    [][\A i \in RunIds : (Suspended(runs[i]) /\ TornDown(runs[i])) =>
            /\ runs'[i].added = runs[i].added
            /\ runs'[i].published = runs[i].published
            /\ runs'[i].finished = runs[i].finished]_vars

\* C17 as amended: the first signal that finds a start() suspended calls
\* teardown once on the current bridge service, lets nothing out of the
\* handler, schedules the forced exit and leaves every start() invocation as
\* it was: the suspended start() is not cancelled.
C17_ShutdownDuringStart ==
    [][(SignalStep /\ signals = << >> /\ \E i \in RunIds : Suspended(runs[i])) =>
          /\ bridgeService # 0
          /\ bridges' = [bridges EXCEPT ![bridgeService].teardowns = @ + 1]
          /\ runs' = runs
          /\ exit' = exit
          /\ Len(exitTimers') = 1]_vars

C17_Witness ==
    /\ shuttingDown
    /\ ~exit.done
    /\ \E i \in RunIds :
          /\ TornDown(runs[i])
          /\ runs[i].pc = "done"
          /\ runs[i].published
          /\ bridges[runs[i].made].published = 1
          /\ bridges[runs[i].made].teardowns = 1

\* C18: after the first termination signal a LOAD or START that arrives is
\* ignored: no LOADED is sent, no bridge service is created, the controller
\* fields are untouched and no start() is begun.
C18_NoLoadOrStartWhileShuttingDown ==
    [][(shuttingDown /\ MessageStep /\ Last(received') \in {"LOAD", "START"}) =>
          UNCHANGED << sent, type, pluginConfig, api, plugin, bridgeService,
                       bridges, runs, exit >>]_vars

Positions(seq, step) == { k \in 1..Len(seq) : seq[k] = step }

Before(seq, a, b) ==
    \A j \in Positions(seq, a), k \in Positions(seq, b) : j < k

ExtensionSteps ==
    {"platformConstructor", "assignDynamicPlatform", "loadPlatformAccessories",
     "accessoryConstructor", "createHAPAccessory", "addBridgedAccessory"}

\* C19: in every start() that has run to completion the cache was read from
\* disk before any platform or accessory was constructed, the remaining
\* cached accessories were restored after the extension branch and before
\* publish, the bridge was published exactly once, and the finished signal
\* was raised once, after publish.
C19_StartStepsInOrder ==
    \A i \in RunIds : runs[i].pc \in {"done", "returned"} =>
        LET t == runs[i].steps IN
        /\ Cardinality(Positions(t, "loadCachedPlatformAccessoriesFromDisk")) = 1
        /\ \A x \in ExtensionSteps :
              /\ Before(t, "loadCachedPlatformAccessoriesFromDisk", x)
              /\ Before(t, x, "restoreCachedPlatformAccessories")
        /\ Cardinality(Positions(t, "restoreCachedPlatformAccessories")) = 1
        /\ Before(t, "restoreCachedPlatformAccessories", "publishBridge")
        /\ Cardinality(Positions(t, "publishBridge")) = 1
        /\ Cardinality(Positions(t, "signalFinished")) = 1
        /\ Before(t, "publishBridge", "signalFinished")

OptionStepNames ==
    {"setTimestampEnabled", "setDebugEnabled", "forceColor", "setStoragePath",
     "setCustomStoragePath"}

\* C20: in every load the runtime options are applied to the process-wide
\* state before the API and the plugin manager are constructed, the _bridge
\* key is removed from the plugin configuration before the extension is
\* loaded or initialised (and is never seen afterwards), and LOADED is sent
\* only after the initialization hook has returned.
C20_LoadStepsInOrder ==
    /\ \A o \in OptionStepNames :
          /\ Before(loadTrace, o, "newHomebridgeAPI")
          /\ Before(loadTrace, o, "newPluginManager")
    /\ \A x \in {"loadPlugin", "pluginLoad", "initializePlugin"} :
          Before(loadTrace, "deleteBridgeKey", x)
    /\ loads > 0 =>
          /\ Cardinality(Positions(loadTrace, "deleteBridgeKey")) = 1
          /\ Cardinality(Positions(loadTrace, "setCustomStoragePath")) = 1
          /\ Cardinality(Positions(loadTrace, "newHomebridgeAPI")) = 1
          /\ ~pluginConfig.bridgeKey
    /\ Before(loadTrace, "initializePlugin", "sendLoaded")
    /\ Positions(loadTrace, "sendLoaded") # {} =>
          /\ Positions(loadTrace, "initializePlugin") # {}
          /\ plugin.initializes /\ plugin.id = loads
          /\ Last(loadTrace) = "sendLoaded"

C20_Witness ==
    /\ loads = 2
    /\ loadsOk = 2
    /\ Positions(loadTrace, "setStoragePath") # {}
    /\ Last(loadTrace) = "sendLoaded"
    /\ Count(sent, "LOADED") = 2

====
